---------------------------- MODULE Spec2Model ----------------------------
(***************************************************************************)
(* A model of sinter/_data/_csv_out.py: the CSV field escaper escape_csv,  *)
(* the row composer csv_line and the module constant CSV_HEADER.           *)
(*                                                                         *)
(* Text is a sequence of one-character strings.  A Python value is a       *)
(* tagged record: none, int, float (a dyadic rational m / 2^FracBits, so   *)
(* that it is an exact binary float), str, or a reference to a mapping     *)
(* object of the heap (a dict keeps its entries in insertion order: a      *)
(* sequence of <<key, value>> pairs).                                      *)
(***************************************************************************)
EXTENDS Integers, Sequences, FiniteSets, TLC

VARIABLES heap, heap0, args, frame, serial, esc, CSV_HEADER

vars == <<heap, heap0, args, frame, serial, esc, CSV_HEADER>>

----------------------------------------------------------------------------
(* Bounds of the model.                                                    *)

MaxTextLen == 3
MaxKeys == 2
FracBits == 4
MaxSecondsWhole == 11
MaxNegMant == 2
MaxEscWidth == 5

----------------------------------------------------------------------------
(* Characters and text.                                                    *)

COMMA == ","
QUOTE == "\""
LF == "\n"
CR == "\r"
SP == " "

DIGITS == <<"0", "1", "2", "3", "4", "5", "6", "7", "8", "9">>

RECURSIVE Pow(_, _)
Pow(b, n) == IF n = 0 THEN 1 ELSE b * Pow(b, n - 1)

RECURSIVE NatToStr(_)
NatToStr(n) ==
    IF n < 10 THEN <<DIGITS[n + 1]>>
    ELSE NatToStr(n \div 10) \o <<DIGITS[(n % 10) + 1]>>

IntToStr(n) == IF n < 0 THEN <<"-">> \o NatToStr(-n) ELSE NatToStr(n)

RECURSIVE Repeat(_, _)
Repeat(c, n) == IF n <= 0 THEN <<>> ELSE <<c>> \o Repeat(c, n - 1)

\* n written with at least d digits (zero-filled on the left).
ZeroFill(n, d) == Repeat("0", d - Len(NatToStr(n))) \o NatToStr(n)

Has(s, c) == \E i \in 1..Len(s) : s[i] = c

RECURSIVE Join(_, _)
Join(parts, sep) ==
    IF Len(parts) = 0 THEN <<>>
    ELSE IF Len(parts) = 1 THEN parts[1]
    ELSE parts[1] \o sep \o Join(Tail(parts), sep)

----------------------------------------------------------------------------
(* Python values.                                                          *)

VNone == [t |-> "none"]
VInt(n) == [t |-> "int", v |-> n]
VFloat(m) == [t |-> "float", m |-> m]
VStr(s) == [t |-> "str", s |-> s]
VRef(id) == [t |-> "ref", id |-> id]

\* Code-point order of the characters that occur in mapping keys.
CharOrder == <<LF, CR, SP, QUOTE, COMMA, "a", "b", "x", "y", "z">>
Ord(c) == CHOOSE i \in 1..Len(CharOrder) : CharOrder[i] = c

\* Python's str < str: lexicographic by code point, a proper prefix first.
RECURSIVE StrLess(_, _)
StrLess(a, b) ==
    IF Len(b) = 0 THEN FALSE
    ELSE IF Len(a) = 0 THEN TRUE
    ELSE IF a[1] = b[1] THEN StrLess(Tail(a), Tail(b))
    ELSE Ord(a[1]) < Ord(b[1])

Abs(n) == IF n < 0 THEN -n ELSE n

\* repr(float) of m / 2^FracBits: the exact decimal expansion, trailing
\* zeros dropped, at least one digit after the point.
RECURSIVE TrimZeros(_)
TrimZeros(s) ==
    IF Len(s) > 1 /\ s[Len(s)] = "0" THEN TrimZeros(SubSeq(s, 1, Len(s) - 1))
    ELSE s

FloatRepr(m) ==
    LET den == Pow(2, FracBits)
        ip == Abs(m) \div den
        fr == (Abs(m) % den) * Pow(5, FracBits)
    IN  (IF m < 0 THEN <<"-">> ELSE <<>>)
        \o NatToStr(ip) \o <<".">> \o TrimZeros(ZeroFill(fr, FracBits))

\* f'{x:0.<d>f}' for x = m / 2^FracBits: correctly rounded, ties to even.
FormatFloat(m, d) ==
    LET den == Pow(2, FracBits)
        n == Abs(m) * Pow(10, d)
        q0 == n \div den
        r == n % den
        q == IF 2 * r > den \/ (2 * r = den /\ q0 % 2 = 1) THEN q0 + 1 ELSE q0
    IN  (IF m < 0 THEN <<"-">> ELSE <<>>)
        \o NatToStr(q \div Pow(10, d)) \o <<".">> \o ZeroFill(q % Pow(10, d), d)

IsSpace(c) == c \in {SP, LF, CR}

\* str.strip(): whitespace removed from both ends.
RECURSIVE LStrip(_)
LStrip(s) == IF Len(s) > 0 /\ IsSpace(s[1]) THEN LStrip(Tail(s)) ELSE s

RECURSIVE RStrip(_)
RStrip(s) ==
    IF Len(s) > 0 /\ IsSpace(s[Len(s)]) THEN RStrip(SubSeq(s, 1, Len(s) - 1))
    ELSE s

Strip(s) == LStrip(RStrip(s))

\* str.rjust(width): spaces added on the left up to width.
Rjust(s, width) == Repeat(SP, width - Len(s)) \o s

IsDigit(c) == \E i \in 1..10 : DIGITS[i] = c

RECURSIVE DigitsToNat(_)
DigitsToNat(s) ==
    IF Len(s) = 0 THEN 0
    ELSE 10 * DigitsToNat(SubSeq(s, 1, Len(s) - 1))
         + ((CHOOSE i \in 1..10 : DIGITS[i] = s[Len(s)]) - 1)

\* int(v) with a failure swallowed: a default of 0 in place of the exception.
PyIntLenient(v) ==
    CASE v.t = "int" -> [ok |-> TRUE, v |-> VInt(v.v)]
      [] v.t = "float" ->
            [ok |-> TRUE,
             v |-> VInt((IF v.m < 0 THEN -1 ELSE 1)
                        * (Abs(v.m) \div Pow(2, FracBits)))]
      [] v.t = "str" ->
            LET d == Strip(v.s)
            IN  IF Len(d) > 0 /\ \A i \in 1..Len(d) : IsDigit(d[i])
                THEN [ok |-> TRUE, v |-> VInt(DigitsToNat(d))]
                ELSE [ok |-> TRUE, v |-> VInt(0)]
      [] OTHER -> [ok |-> TRUE, v |-> VInt(0)]

\* int(v): [ok, v] or the exception raised.
PyInt(v) ==
    CASE v.t = "int" -> [ok |-> TRUE, v |-> VInt(v.v)]
      [] v.t = "float" ->
            [ok |-> TRUE,
             v |-> VInt((IF v.m < 0 THEN -1 ELSE 1)
                       * (Abs(v.m) \div Pow(2, FracBits)))]
      [] v.t = "str" ->
            LET d == Strip(v.s)
            IN  IF Len(d) > 0 /\ \A i \in 1..Len(d) : IsDigit(d[i])
                THEN [ok |-> TRUE, v |-> VInt(DigitsToNat(d))]
                ELSE [ok |-> FALSE, exc |-> "ValueError"]
      [] OTHER -> [ok |-> FALSE, exc |-> "TypeError"]

\* The characters of a JSON string literal's body.
RECURSIVE JsonEscape(_)
JsonEscape(s) ==
    IF Len(s) = 0 THEN <<>>
    ELSE (CASE s[1] = QUOTE -> <<"\\", QUOTE>>
            [] s[1] = LF -> <<"\\", "n">>
            [] s[1] = CR -> <<"\\", "r">>
            [] OTHER -> <<s[1]>>) \o JsonEscape(Tail(s))

\* sorted(items) by key: insertion into an already sorted sequence.
RECURSIVE InsertByKey(_, _)
InsertByKey(e, sorted) ==
    IF Len(sorted) = 0 THEN <<e>>
    ELSE IF StrLess(e[1], sorted[1][1]) THEN <<e>> \o sorted
    ELSE <<sorted[1]>> \o InsertByKey(e, Tail(sorted))

RECURSIVE SortByKey(_)
SortByKey(items) ==
    IF Len(items) = 0 THEN <<>>
    ELSE InsertByKey(items[1], SortByKey(Tail(items)))

\* DumpOrder without sort_keys: the insertion order.
DumpOrderInserted(items) == items

\* The order in which json.dumps(..., sort_keys=True) emits a mapping's items.
DumpOrder(items) == SortByKey(items)

JsonScalar(v) ==
    CASE v.t = "none" -> <<"n", "u", "l", "l">>
      [] v.t = "int" -> IntToStr(v.v)
      [] v.t = "float" -> FloatRepr(v.m)
      [] v.t = "str" -> <<QUOTE>> \o JsonEscape(v.s) \o <<QUOTE>>

\* json.dumps(v, separators=(',', ':'), sort_keys=True); h is the heap.
json_dumps(v, h) ==
    IF v.t = "ref"
    THEN LET items == DumpOrder(h[v.id])
             item(i) == <<QUOTE>> \o JsonEscape(items[i][1]) \o <<QUOTE, ":">>
                        \o JsonScalar(items[i][2])
         IN  <<"{">> \o Join([i \in 1..Len(items) |-> item(i)], <<COMMA>>)
             \o <<"}">>
    ELSE JsonScalar(v)

\* repr() of a value inside a dict's repr.
PyReprScalar(v) ==
    CASE v.t = "none" -> <<"N", "o", "n", "e">>
      [] v.t = "int" -> IntToStr(v.v)
      [] v.t = "float" -> FloatRepr(v.m)
      [] v.t = "str" -> <<"'">> \o v.s \o <<"'">>

\* str(v), as csv.writer and an f-string take it (csv.writer writes None as
\* the empty string).
PyStr(v, h) ==
    CASE v.t = "none" -> <<"N", "o", "n", "e">>
      [] v.t = "int" -> IntToStr(v.v)
      [] v.t = "float" -> FloatRepr(v.m)
      [] v.t = "str" -> v.s
      [] v.t = "ref" ->
            LET items == h[v.id]
                item(i) == <<"'">> \o items[i][1] \o <<"'", ":", SP>>
                           \o PyReprScalar(items[i][2])
            IN  <<"{">> \o Join([i \in 1..Len(items) |-> item(i)], <<COMMA, SP>>)
                \o <<"}">>

----------------------------------------------------------------------------
(* escape_csv.                                                             *)

\* Optional[int]: None is the empty sequence, a width w is <<w>>.
NoWidth == <<>>
Width(w) == <<w>>

\* DoubleQuotes with the doubling forgotten.
DoubleQuotesDropped(s) == s

RECURSIVE DoubleQuotes(_)
DoubleQuotes(s) ==
    IF Len(s) = 0 THEN <<>>
    ELSE (IF s[1] = QUOTE THEN <<QUOTE, QUOTE>> ELSE <<s[1]>>)
         \o DoubleQuotes(Tail(s))

\* csv.writer(output).writerow([text]) with the default dialect: the field is
\* quoted when it holds the delimiter, the quote character or a character of
\* the line terminator, and a row of one empty field is written as "".  The
\* record ends with the line terminator "\r\n".
CsvWriterRow(v, h) ==
    LET f == IF v.t = "none" THEN <<>> ELSE PyStr(v, h)
        quoted == Len(f) = 0 \/ Has(f, COMMA) \/ Has(f, QUOTE)
                  \/ Has(f, CR) \/ Has(f, LF)
    IN  (IF quoted THEN <<QUOTE>> \o DoubleQuotes(f) \o <<QUOTE>> ELSE f)
        \o <<CR, LF>>

escape_csv(text, width, h) ==
    LET stripped == Strip(CsvWriterRow(text, h))
    IN  IF width # NoWidth THEN Rjust(stripped, width[1]) ELSE stripped

----------------------------------------------------------------------------
(* csv_line.                                                               *)

WIDTH_SHOTS == 10
WIDTH_ERRORS == 10
WIDTH_DISCARDS == 10
WIDTH_SECONDS == 8

\* SecondsPlaces with the bounds taken inclusively (<= for <).
SecondsPlacesInclusive(m) ==
    IF m <= 1 * Pow(2, FracBits) THEN 3
    ELSE IF m <= 10 * Pow(2, FracBits) THEN 2
    ELSE 1

\* The number of decimal places csv_line gives a float seconds (m / 2^FracBits).
SecondsPlaces(m) ==
    IF m < 1 * Pow(2, FracBits) THEN 3
    ELSE IF m < 10 * Pow(2, FracBits) THEN 2
    ELSE 1

\* The seconds local after the isinstance(seconds, float) block.
FormatSeconds(seconds) ==
    IF seconds.t = "float"
    THEN VStr(FormatFloat(seconds.m, SecondsPlaces(seconds.m)))
    ELSE seconds

\* bool(v), as `if custom_counts:` takes it.
Truthy(v, h) ==
    CASE v.t = "none" -> FALSE
      [] v.t = "int" -> v.v # 0
      [] v.t = "float" -> v.m # 0
      [] v.t = "str" -> Len(v.s) > 0
      [] v.t = "ref" -> Len(h[v.id]) > 0

\* The errors local after the isinstance(errors, (dict, Counter)) block.
FormatErrors(errors, h) ==
    IF errors.t = "ref" THEN VStr(json_dumps(errors, h)) ELSE errors

\* DumpCustomCounts with the JSON text escaped a second time.
DumpCustomCountsTwice(custom_counts, h) ==
    VStr(escape_csv(VStr(escape_csv(VStr(json_dumps(custom_counts, h)),
                                    NoWidth, h)), NoWidth, h))

\* The custom_counts local after escape_csv(json.dumps(custom_counts, ...), None).
DumpCustomCounts(custom_counts, h) ==
    VStr(escape_csv(VStr(json_dumps(custom_counts, h)), NoWidth, h))

\* RowFields with decoder and strong_id in the order of the CSV_HEADER call's
\* keywords (strong_id first).
RowFieldsSwapped(a, loc, h) ==
    << escape_csv(a.shots, Width(WIDTH_SHOTS), h),
       escape_csv(FormatErrors(a.errors, h), Width(WIDTH_ERRORS), h),
       escape_csv(a.discards, Width(WIDTH_DISCARDS), h),
       escape_csv(loc.seconds, Width(WIDTH_SECONDS), h),
       escape_csv(a.strong_id, NoWidth, h),
       escape_csv(a.decoder, NoWidth, h),
       escape_csv(loc.json_metadata, NoWidth, h),
       PyStr(loc.custom_counts, h) >>

\* The eight texts of the returned f-string, in its order; a is the call's
\* arguments, loc its rebound locals (seconds, json_metadata, custom_counts).
RowFields(a, loc, h) ==
    << escape_csv(a.shots, Width(WIDTH_SHOTS), h),
       escape_csv(FormatErrors(a.errors, h), Width(WIDTH_ERRORS), h),
       escape_csv(a.discards, Width(WIDTH_DISCARDS), h),
       escape_csv(loc.seconds, Width(WIDTH_SECONDS), h),
       escape_csv(a.decoder, NoWidth, h),
       escape_csv(a.strong_id, NoWidth, h),
       escape_csv(loc.json_metadata, NoWidth, h),
       PyStr(loc.custom_counts, h) >>

RowLine(a, loc, h) == Join(RowFields(a, loc, h), <<COMMA>>)

\* The result of int(custom_counts[k]) when it raises.
CoercionFailure(exc) == [kind |-> "raise", exc |-> exc, line |-> <<>>]

Returned(line) == [kind |-> "return", exc |-> "", line |-> line]

NoResult == [kind |-> "none", exc |-> "", line |-> <<>>]

\* The arguments of the module-level call that computes CSV_HEADER.
HeaderArgs ==
    [shots |-> VStr(<<"s", "h", "o", "t", "s">>),
     errors |-> VStr(<<"e", "r", "r", "o", "r", "s">>),
     discards |-> VStr(<<"d", "i", "s", "c", "a", "r", "d", "s">>),
     seconds |-> VStr(<<"s", "e", "c", "o", "n", "d", "s">>),
     strong_id |-> VStr(<<"s", "t", "r", "o", "n", "g", "_", "i", "d">>),
     decoder |-> VStr(<<"d", "e", "c", "o", "d", "e", "r">>),
     json_metadata |-> VStr(<<"j", "s", "o", "n", "_", "m", "e", "t", "a",
                              "d", "a", "t", "a">>),
     custom_counts |-> VStr(<<"c", "u", "s", "t", "o", "m", "_", "c", "o",
                              "u", "n", "t", "s">>),
     is_header |-> TRUE]

\* A header-mode call runs no loop: its locals are its arguments, seconds
\* formatted.
HeaderLocals(a) ==
    [seconds |-> FormatSeconds(a.seconds),
     json_metadata |-> a.json_metadata,
     custom_counts |-> a.custom_counts]

\* The loop `for k in custom_counts: custom_counts[k] = int(custom_counts[k])`
\* run from its i-th key with no other thread in between: the heap it leaves,
\* or the exception of its first failing key (the keys before it stay written).
RECURSIVE CoerceFrom(_, _, _)
CoerceFrom(h, id, i) ==
    IF i > Len(h[id]) THEN [ok |-> TRUE, exc |-> "", h |-> h]
    ELSE LET r == PyInt(h[id][i][2])
         IN  IF r.ok THEN CoerceFrom([h EXCEPT ![id][i][2] = r.v], id, i + 1)
             ELSE [ok |-> FALSE, exc |-> r.exc, h |-> h]

\* csv_line run alone on heap h: its result and the heap it leaves.
csv_line(a, h) ==
    IF a.is_header
    THEN [result |-> Returned(RowLine(a, HeaderLocals(a), h)), h |-> h]
    ELSE LET sec == FormatSeconds(a.seconds)
             jm == VStr(json_dumps(a.json_metadata, h))
         IN  IF ~Truthy(a.custom_counts, h)
             THEN [result |-> Returned(RowLine(a,
                       [seconds |-> sec, json_metadata |-> jm,
                        custom_counts |-> VStr(<<>>)], h)),
                   h |-> h]
             ELSE IF a.custom_counts.t # "ref"
             THEN [result |-> CoercionFailure("TypeError"), h |-> h]
             ELSE LET c == CoerceFrom(h, a.custom_counts.id, 1)
                  IN  IF ~c.ok
                      THEN [result |-> CoercionFailure(c.exc), h |-> c.h]
                      ELSE [result |-> Returned(RowLine(a,
                                [seconds |-> sec, json_metadata |-> jm,
                                 custom_counts |->
                                     DumpCustomCounts(a.custom_counts, c.h)],
                                c.h)),
                            h |-> c.h]

----------------------------------------------------------------------------
(* The state machine: calls of csv_line by threads that share the heap.    *)

Threads == 1..Len(args)

IdleFrame ==
    [pc |-> "idle", seconds |-> VNone, json_metadata |-> VNone,
     custom_counts |-> VNone, i |-> 0, tmp |-> VNone, result |-> NoResult]

Finished(t) == frame[t].pc \in {"returned", "raised"}

Running(t) == frame[t].pc \notin {"idle", "returned", "raised"}

\* The state once the module is imported and the caller holds `calls` to make
\* on the mapping objects of h.
Setup(h, calls, ser) ==
    /\ heap = h
    /\ heap0 = h
    /\ args = calls
    /\ frame = [t \in 1..Len(calls) |-> IdleFrame]
    /\ serial = ser
    /\ esc = [text |-> VNone, width |-> NoWidth, out |-> <<>>, done |-> FALSE]
    /\ CSV_HEADER = csv_line(HeaderArgs, h).result.line

\* Thread t calls csv_line: the seconds block, json.dumps(json_metadata) and
\* the test of `if custom_counts:`.
Enter(t) ==
    LET a == args[t]
        f == frame[t]
        sec == FormatSeconds(a.seconds)
    IN  /\ f.pc = "idle"
        /\ serial => \A u \in Threads : ~Running(u)
        /\ frame' = [frame EXCEPT ![t] =
             IF a.is_header
             THEN [f EXCEPT !.pc = "tail", !.seconds = sec,
                            !.json_metadata = a.json_metadata,
                            !.custom_counts = a.custom_counts]
             ELSE LET jm == VStr(json_dumps(a.json_metadata, heap))
                  IN  IF ~Truthy(a.custom_counts, heap)
                      THEN [f EXCEPT !.pc = "tail", !.seconds = sec,
                                     !.json_metadata = jm,
                                     !.custom_counts = VStr(<<>>)]
                      ELSE IF a.custom_counts.t = "ref"
                      THEN [f EXCEPT !.pc = "loop_read", !.seconds = sec,
                                     !.json_metadata = jm,
                                     !.custom_counts = a.custom_counts,
                                     !.i = 1]
                      ELSE [f EXCEPT !.pc = "raised", !.seconds = sec,
                                     !.json_metadata = jm,
                                     !.custom_counts = a.custom_counts,
                                     !.result = CoercionFailure("TypeError")]]
        /\ UNCHANGED <<heap, heap0, args, serial, esc, CSV_HEADER>>

\* int(custom_counts[k]) for the loop's current key.
LoopRead(t) ==
    LET f == frame[t]
        r == PyInt(heap[f.custom_counts.id][f.i][2])
    IN  /\ f.pc = "loop_read"
        /\ frame' = [frame EXCEPT ![t] =
             IF r.ok THEN [f EXCEPT !.pc = "loop_write", !.tmp = r.v]
             ELSE [f EXCEPT !.pc = "raised",
                            !.result = CoercionFailure(r.exc)]]
        /\ UNCHANGED <<heap, heap0, args, serial, esc, CSV_HEADER>>

\* custom_counts[k] = <the integer>, and the loop's next key.
LoopWrite(t) ==
    LET f == frame[t]
        id == f.custom_counts.id
    IN  /\ f.pc = "loop_write"
        /\ heap' = [heap EXCEPT ![id][f.i][2] = f.tmp]
        /\ frame' = [frame EXCEPT ![t] =
             [f EXCEPT !.pc = IF f.i < Len(heap[id]) THEN "loop_read" ELSE "dump",
                       !.i = f.i + 1, !.tmp = VNone]]
        /\ UNCHANGED <<heap0, args, serial, esc, CSV_HEADER>>

\* custom_counts = escape_csv(json.dumps(custom_counts, ...), None).
Dump(t) ==
    LET f == frame[t]
    IN  /\ f.pc = "dump"
        /\ frame' = [frame EXCEPT ![t] =
             [f EXCEPT !.pc = "tail",
                       !.custom_counts = DumpCustomCounts(f.custom_counts, heap)]]
        /\ UNCHANGED <<heap, heap0, args, serial, esc, CSV_HEADER>>

\* The escapes of the seven fields and the returned f-string.
Return(t) ==
    LET f == frame[t]
    IN  /\ f.pc = "tail"
        /\ frame' = [frame EXCEPT ![t] =
             [f EXCEPT !.pc = "returned",
                       !.result = Returned(RowLine(args[t], f, heap))]]
        /\ UNCHANGED <<heap, heap0, args, serial, esc, CSV_HEADER>>

Next ==
    \/ \E t \in Threads : Enter(t)
    \/ \E t \in Threads : LoopRead(t)
    \/ \E t \in Threads : LoopWrite(t)
    \/ \E t \in Threads : Dump(t)
    \/ \E t \in Threads : Return(t)

\* A call of escape_csv on its own.
EscapeCall ==
    /\ ~esc.done
    /\ esc' = [esc EXCEPT !.out = escape_csv(esc.text, esc.width, heap),
                          !.done = TRUE]
    /\ UNCHANGED <<heap, heap0, args, frame, serial, CSV_HEADER>>

NextEscape == EscapeCall

----------------------------------------------------------------------------
(* Inputs.                                                                 *)

TextChars == {"a", SP, COMMA, QUOTE, LF, CR}

\* Every text of at most n characters.
Texts(n) == UNION {[1..k -> TextChars] : k \in 0..n}

NoHeap == <<>>

\* escape_csv on its own: every short text and a value of each other type,
\* with no width and with every small width.
InitEscape ==
    /\ heap = NoHeap
    /\ heap0 = NoHeap
    /\ args = <<>>
    /\ frame = <<>>
    /\ serial = TRUE
    /\ CSV_HEADER = csv_line(HeaderArgs, NoHeap).result.line
    /\ \E text \in {VStr(s) : s \in Texts(MaxTextLen)}
                   \cup {VNone, VInt(0), VInt(-12), VFloat(Pow(2, FracBits) + 1)},
          width \in {NoWidth} \cup {Width(w) : w \in 0..MaxEscWidth} :
            esc = [text |-> text, width |-> width, out |-> <<>>, done |-> FALSE]

SpecEscape == InitEscape /\ [][NextEscape]_vars

\* A call's arguments with a different value in every slot.
BaseArgs(header) ==
    [shots |-> VInt(1), errors |-> VInt(2), discards |-> VInt(3),
     seconds |-> VInt(4), decoder |-> VStr(<<"a">>),
     strong_id |-> VStr(<<"b", QUOTE, COMMA>>),
     json_metadata |-> IF header THEN VStr(<<"x">>) ELSE VRef(1),
     custom_counts |-> IF header THEN VStr(<<"y">>) ELSE VRef(1),
     is_header |-> header]

Slots == {"shots", "errors", "discards", "seconds", "decoder", "strong_id",
          "json_metadata", "custom_counts"}

Half == Pow(2, FracBits - 1)

\* One call, in header mode or data mode, with any short text in any one slot.
InitText ==
    \E slot \in Slots, x \in Texts(MaxTextLen), header \in BOOLEAN :
        Setup(<< << <<<<"x">>, VFloat(7 * Half)>> >> >>,
              << [BaseArgs(header) EXCEPT ![slot] = VStr(x)] >>,
              TRUE)

SpecText == InitText /\ [][Next]_vars

SecondsValues ==
    {VFloat(m) : m \in (-MaxNegMant)..(MaxSecondsWhole * Pow(2, FracBits))}
    \cup {VStr(<<"a">>), VStr(<<"1", ".", "5">>),
          VStr(<<"1", "2", "3", "4", "5", "6", ".", "7", "8">>), VInt(7)}

\* One call, in header mode or data mode, with any seconds value.
InitSeconds ==
    \E sec \in SecondsValues, header \in BOOLEAN :
        Setup(<< << <<<<"x">>, VFloat(7 * Half)>> >> >>,
              << [BaseArgs(header) EXCEPT !.seconds = sec] >>,
              TRUE)

SpecSeconds == InitSeconds /\ [][Next]_vars

MapKeys == {<<"x">>, <<"y">>, <<"x", "y">>}

MapValues == {VInt(1), VFloat(7 * Half), VStr(<<"z">>)}

\* Every mapping of at most n entries, in every insertion order.
Mappings(n) ==
    {m \in UNION {[1..k -> MapKeys \X MapValues] : k \in 0..n} :
        \A i, j \in 1..Len(m) : i # j => m[i][1] # m[j][1]}

\* The same entries as m, inserted in any order.
Reorderings(m) ==
    {p \in [1..Len(m) -> {m[i] : i \in 1..Len(m)}] :
        \A i \in 1..Len(m) : \E j \in 1..Len(m) : p[j] = m[i]}

\* The mapping-carrying slots of a data-row call on mapping object id.
MapArgs(id, inMeta, inErrors, inCounts) ==
    [BaseArgs(FALSE) EXCEPT
        !.json_metadata = IF inMeta THEN VRef(id) ELSE VNone,
        !.errors = IF inErrors THEN VRef(id) ELSE VInt(2),
        !.custom_counts = IF inCounts THEN VRef(id) ELSE VNone]

\* Two calls, one after the other, with equal arguments: the second call's
\* mapping holds the entries of the first call's in another insertion order.
InitMaps ==
    \E m \in Mappings(MaxKeys), inMeta \in BOOLEAN, inErrors \in BOOLEAN,
       inCounts \in BOOLEAN :
        \E p \in Reorderings(m) :
            Setup(<<m, p>>,
                  << MapArgs(1, inMeta, inErrors, inCounts),
                     MapArgs(2, inMeta, inErrors, inCounts) >>,
                  TRUE)

SpecMaps == InitMaps /\ [][Next]_vars

\* Two threads call csv_line with no coordination on one mapping object,
\* which each call passes, or not, as json_metadata and as custom_counts.
InitConcurrent ==
    \E m \in Mappings(MaxKeys),
       meta1 \in BOOLEAN, counts1 \in BOOLEAN,
       meta2 \in BOOLEAN, counts2 \in BOOLEAN :
        Setup(<<m>>,
              << MapArgs(1, meta1, FALSE, counts1),
                 MapArgs(1, meta2, FALSE, counts2) >>,
              FALSE)

Spec == InitConcurrent /\ [][Next]_vars

----------------------------------------------------------------------------
(* What a reader of a row does: split on the commas outside quotes, drop   *)
(* the left padding, remove the outer quotes and un-double the inner ones. *)

\* Position i of line lies inside quotes: an odd number of quotes precede it.
InQuotes(line, i) ==
    Cardinality({j \in 1..(i - 1) : line[j] = QUOTE}) % 2 = 1

\* The positions of the commas outside quotes.
Separators(line) ==
    {i \in 1..Len(line) : line[i] = COMMA /\ ~InQuotes(line, i)}

SplitFields(line) ==
    LET seps == Separators(line)
        n == Cardinality(seps)
        \* the k-th separator; the 0-th is before the line, the last after it
        sep(k) == IF k = 0 THEN 0
                  ELSE IF k = n + 1 THEN Len(line) + 1
                  ELSE CHOOSE i \in seps :
                           Cardinality({j \in seps : j < i}) = k - 1
    IN  [k \in 1..(n + 1) |-> SubSeq(line, sep(k - 1) + 1, sep(k) - 1)]

RECURSIVE DropPadding(_)
DropPadding(s) == IF Len(s) > 0 /\ s[1] = SP THEN DropPadding(Tail(s)) ELSE s

RECURSIVE Undouble(_)
Undouble(s) ==
    IF Len(s) = 0 THEN <<>>
    ELSE IF Len(s) >= 2 /\ s[1] = QUOTE /\ s[2] = QUOTE
    THEN <<QUOTE>> \o Undouble(SubSeq(s, 3, Len(s)))
    ELSE <<s[1]>> \o Undouble(Tail(s))

UnescapeField(field) ==
    LET f == DropPadding(field)
    IN  IF Len(f) >= 2 /\ f[1] = QUOTE /\ f[Len(f)] = QUOTE
        THEN Undouble(SubSeq(f, 2, Len(f) - 1))
        ELSE f

NeedsQuoting(s) == Has(s, COMMA) \/ Has(s, QUOTE) \/ Has(s, LF) \/ Has(s, CR)

\* The RFC 4180 encoding of one field.
Rfc4180Field(s) ==
    IF NeedsQuoting(s) THEN <<QUOTE>> \o DoubleQuotes(s) \o <<QUOTE>> ELSE s

Max(a, b) == IF a > b THEN a ELSE b

----------------------------------------------------------------------------
(* C4: escape_csv(value, width) is the RFC 4180 encoding of the value's    *)
(* text (quoted, inner quotes doubled, exactly when it holds a comma, a    *)
(* quote or a newline; otherwise unquoted and unchanged), padded with      *)
(* spaces on the left to at least width, of length max(width, length of    *)
(* the encoding); nothing but the record terminator is removed.  Stated    *)
(* for a non-empty value (csv.writer writes the empty one as "").          *)
C4_EscapeIsRfc4180 ==
    (esc.done /\ esc.text.t = "str" /\ Len(esc.text.s) > 0) =>
        LET enc == Rfc4180Field(esc.text.s)
            w == IF esc.width = NoWidth THEN 0 ELSE esc.width[1]
        IN  /\ esc.out = Repeat(SP, w - Len(enc)) \o enc
            /\ Len(esc.out) = Max(w, Len(enc))

----------------------------------------------------------------------------
(* Claims about a row.                                                     *)

RowOf(t) == SplitFields(frame[t].result.line)

HasReturned(t) == frame[t].pc = "returned"

\* The slots in the order of the row, and the slots that carry text to
\* escape_csv as it is (json_metadata does in header mode only: a data row
\* carries its JSON; custom_counts is never given to escape_csv as text).
SlotOrder == <<"shots", "errors", "discards", "seconds", "decoder",
               "strong_id", "json_metadata", "custom_counts">>

TextCarrying(i, a) == i <= 6 \/ (i = 7 /\ a.is_header)

\* A newline is a line feed or a carriage return.
IsSpecial(s) == Has(s, COMMA) \/ Has(s, QUOTE) \/ Has(s, LF) \/ Has(s, CR)

(* C1: a text with a comma, a quote or a newline, in any text-carrying     *)
(* slot (with or without a width), is recovered exactly by splitting the   *)
(* returned line on the commas outside quotes and unescaping its field.    *)
C1_RoundTrip ==
    \A t \in Threads :
        HasReturned(t) =>
            \A i \in 1..7 :
                LET v == args[t][SlotOrder[i]]
                IN  (TextCarrying(i, args[t]) /\ v.t = "str" /\ IsSpecial(v.s))
                    => /\ Len(RowOf(t)) >= i
                       /\ UnescapeField(RowOf(t)[i]) = v.s

C1_Witness ==
    \E t \in Threads :
        /\ HasReturned(t)
        /\ ~args[t].is_header
        /\ args[t].decoder = VStr(<<QUOTE, COMMA, LF>>)

(* C2: every line csv_line returns, in header mode and in data mode, and   *)
(* CSV_HEADER, has exactly 8 fields when split on the commas outside       *)
(* quotes.  In header mode custom_counts is joined into the row without    *)
(* escape_csv, so this is violated.                                        *)
C2_EightFields ==
    /\ Len(SplitFields(CSV_HEADER)) = 8
    /\ \A t \in Threads : HasReturned(t) => Len(RowOf(t)) = 8

\* The same count for data rows alone, which the code does keep.
C2_DataRowsEightFields ==
    \A t \in Threads :
        (HasReturned(t) /\ ~args[t].is_header) => Len(RowOf(t)) = 8

\* The text of the row after its n-th comma outside quotes.
RestAfter(line, n) ==
    LET seps == Separators(line)
        at == CHOOSE i \in seps : Cardinality({j \in seps : j < i}) = n - 1
    IN  SubSeq(line, at + 1, Len(line))

\* A data-row call of thread t with a non-empty custom_counts mapping.
CountsCall(t) ==
    /\ ~args[t].is_header
    /\ args[t].custom_counts.t = "ref"
    /\ Len(heap0[args[t].custom_counts.id]) > 0

\* A value int() rejects.
Uncoercible(v) ==
    \/ v.t \in {"none", "ref"}
    \/ v.t = "str" /\ (Len(v.s) = 0 \/ \E i \in 1..Len(v.s) : ~IsDigit(v.s[i]))

AllCoercible(items) == \A i \in 1..Len(items) : ~Uncoercible(items[i][2])

\* A number as an integer: a float's whole part.
AsInteger(v) ==
    IF v.t = "float"
    THEN VInt((IF v.m < 0 THEN -1 ELSE 1) * (Abs(v.m) \div Pow(2, FracBits)))
    ELSE v

\* The least key of a non-empty mapping, and the canonical JSON of a mapping
\* of numbers and texts: its items by ascending key, no whitespace.
LeastItem(items) ==
    CHOOSE i \in 1..Len(items) :
        \A j \in 1..Len(items) : j # i => StrLess(items[i][1], items[j][1])

Without(items, i) == SubSeq(items, 1, i - 1) \o SubSeq(items, i + 1, Len(items))

RECURSIVE CanonItems(_)
CanonItems(items) ==
    IF Len(items) = 0 THEN <<>>
    ELSE LET i == LeastItem(items)
         IN  <<QUOTE>> \o items[i][1] \o <<QUOTE, ":">> \o JsonScalar(items[i][2])
             \o (IF Len(items) > 1 THEN <<COMMA>> ELSE <<>>)
             \o CanonItems(Without(items, i))

CanonJson(items) == <<"{">> \o CanonItems(items) \o <<"}">>

IntegerCoerced(items) ==
    [i \in 1..Len(items) |-> <<items[i][1], AsInteger(items[i][2])>>]

DecimalsOf(s) == Len(s) - (CHOOSE i \in 1..Len(s) : s[i] = ".")

PlacesByMagnitude(m) ==
    IF m < Pow(2, FracBits) THEN 3
    ELSE IF m < 10 * Pow(2, FracBits) THEN 2
    ELSE 1

(* C5: a float seconds below 1.0 is rendered with 3 decimal places, one in *)
(* [1.0, 10.0) with 2, one at or above 10.0 with 1 (0.5 -> 0.500,          *)
(* 5.25 -> 5.25), in header mode and data mode alike; a text seconds       *)
(* passes through unchanged; the field is right-justified to width 8.      *)
C5_SecondsByMagnitude ==
    \A t \in Threads :
        HasReturned(t) =>
            LET sec == args[t].seconds
                field == RowOf(t)[4]
                shown == DropPadding(field)
            IN  /\ Len(field) = Max(WIDTH_SECONDS, Len(shown))
                /\ sec.t = "float" =>
                      /\ Has(shown, ".")
                      /\ DecimalsOf(shown) = PlacesByMagnitude(sec.m)
                      /\ shown = FormatFloat(sec.m, PlacesByMagnitude(sec.m))
                /\ sec = VFloat(Half) => shown = <<"0", ".", "5", "0", "0">>
                /\ sec = VFloat(21 * Pow(2, FracBits - 2))
                      => shown = <<"5", ".", "2", "5">>
                /\ sec = VFloat(10 * Pow(2, FracBits))
                      => shown = <<"1", "0", ".", "0">>
                /\ sec.t = "str" => shown = sec.s

C5_Witness ==
    \E t \in Threads :
        /\ HasReturned(t)
        /\ args[t].is_header
        /\ args[t].seconds = VFloat(10 * Pow(2, FracBits))

(* C6: two calls whose arguments are equal up to the insertion order of    *)
(* their json_metadata, errors and custom_counts mappings end alike and    *)
(* return the identical row, whose JSON has its keys in sorted order and   *)
(* no whitespace between tokens.                                           *)
C6_Deterministic ==
    (Finished(1) /\ Finished(2)) =>
        /\ frame[1].result = frame[2].result
        /\ \A t \in Threads :
              (HasReturned(t) /\ args[t].json_metadata.t = "ref") =>
                  UnescapeField(RowOf(t)[7])
                  = CanonJson(heap0[args[t].json_metadata.id])

C6_Witness ==
    /\ HasReturned(1)
    /\ HasReturned(2)
    /\ heap0[1] # heap0[2]
    /\ args[1].json_metadata.t = "ref"
    /\ args[1].errors.t = "ref"
    /\ args[1].custom_counts.t = "ref"

(* C8: in a data-row call with non-empty custom_counts, if some value      *)
(* cannot be represented as an integer, the call fails with the coercion   *)
(* error, which reaches the caller, and returns no row.                    *)
C8_CoercionErrorPropagates ==
    \A t \in Threads :
        (CountsCall(t)
         /\ ~AllCoercible(heap0[args[t].custom_counts.id])
         /\ frame[t].pc # "idle") =>
            /\ frame[t].pc \in {"loop_read", "loop_write", "raised"}
            /\ frame[t].result.line = <<>>
            /\ Finished(t) => /\ frame[t].result.kind = "raise"
                              /\ frame[t].result.exc = "ValueError"

C8_Witness ==
    \E t \in Threads :
        /\ CountsCall(t)
        /\ frame[t].pc = "raised"
        /\ frame[t].result.exc = "ValueError"
        /\ frame[t].i > 1

(* C9: for any interleaving of csv_line calls, calls that share a mapping  *)
(* object included, each call ends as it would when run alone on the       *)
(* initial argument values.  A call's in-place coercion of custom_counts   *)
(* is seen by a call that reads the same object as json_metadata, so this  *)
(* is violated.                                                            *)
C9_SameAsAlone ==
    \A t \in Threads :
        Finished(t) => frame[t].result = csv_line(args[t], heap0).result

(* C10: a csv_line call only reads its arguments: every mapping the caller *)
(* supplied holds the values it held before the call.  The loop writes     *)
(* the integers into the caller's mapping, so this is violated.            *)
C10_ArgumentsUnchanged == heap = heap0

----------------------------------------------------------------------------
(* Claims about CSV_HEADER.                                                *)

ColumnNames ==
    << <<"s", "h", "o", "t", "s">>,
       <<"e", "r", "r", "o", "r", "s">>,
       <<"d", "i", "s", "c", "a", "r", "d", "s">>,
       <<"s", "e", "c", "o", "n", "d", "s">>,
       <<"d", "e", "c", "o", "d", "e", "r">>,
       <<"s", "t", "r", "o", "n", "g", "_", "i", "d">>,
       <<"j", "s", "o", "n", "_", "m", "e", "t", "a", "d", "a", "t", "a">>,
       <<"c", "u", "s", "t", "o", "m", "_", "c", "o", "u", "n", "t", "s">> >>

ColumnWidths == <<WIDTH_SHOTS, WIDTH_ERRORS, WIDTH_DISCARDS, WIDTH_SECONDS,
                  0, 0, 0, 0>>

\* The argument that the CSV_HEADER call gives this column name.
ArgumentNamed(name) == CHOOSE n \in Slots : HeaderArgs[n].s = name

\* The field a data row shows for argument n of call t: the argument (its
\* JSON for json_metadata; the call's custom_counts text) escaped at the
\* column's width.
FieldOfArgument(t, n) ==
    LET a == args[t]
    IN  CASE n = "shots" -> escape_csv(a.shots, Width(WIDTH_SHOTS), heap)
          [] n = "errors" ->
                escape_csv(FormatErrors(a.errors, heap), Width(WIDTH_ERRORS), heap)
          [] n = "discards" -> escape_csv(a.discards, Width(WIDTH_DISCARDS), heap)
          [] n = "seconds" ->
                escape_csv(FormatSeconds(a.seconds), Width(WIDTH_SECONDS), heap)
          [] n = "decoder" -> escape_csv(a.decoder, NoWidth, heap)
          [] n = "strong_id" -> escape_csv(a.strong_id, NoWidth, heap)
          [] n = "json_metadata" ->
                escape_csv(VStr(json_dumps(a.json_metadata, heap0)), NoWidth, heap)
          [] n = "custom_counts" -> frame[t].custom_counts.s

(* C7: CSV_HEADER is csv_line in header mode on the column names, it holds *)
(* that value in every state, its 8 fields are, padding removed, shots,    *)
(* errors, discards, seconds, decoder, strong_id, json_metadata,           *)
(* custom_counts in that order, none quoted, padded to the widths 10, 10,  *)
(* 10, 8 of data rows, and the i-th field of every data row is the         *)
(* argument named by the i-th header field.                                *)
C7_HeaderMatchesRows ==
    LET header == SplitFields(CSV_HEADER)
    IN  /\ Len(header) = 8
        /\ ~Has(CSV_HEADER, QUOTE)
        /\ \A i \in 1..8 :
              /\ DropPadding(header[i]) = ColumnNames[i]
              /\ Len(header[i]) = Max(ColumnWidths[i], Len(ColumnNames[i]))
        /\ \A t \in Threads :
              (HasReturned(t) /\ ~args[t].is_header) =>
                  /\ Len(RowOf(t)) = 8
                  /\ \A i \in 1..8 :
                        RowOf(t)[i]
                        = FieldOfArgument(t, ArgumentNamed(DropPadding(header[i])))

C7_Witness ==
    \E t \in Threads :
        /\ HasReturned(t)
        /\ ~args[t].is_header
        /\ args[t].decoder = VStr(<<"a", COMMA>>)
        /\ Len(SplitFields(CSV_HEADER)) = 8

============================================================================
